---- MODULE Spec2Model ----
(***************************************************************************)
(* Model of the CDI figure helpers:                                        *)
(*   src/cdi_ml/theme_minimal.py  (chapter/counter state, _next_path,      *)
(*                                 _embed, the three save helpers)         *)
(*   src/cdi_ml/helpers.py        (a second, separate _STATE with its own  *)
(*                                 cdi_notebook_init / show_and_save_mpl)  *)
(* Python strings are TLA+ strings; TLC evaluates Len, \o, Head, Tail and  *)
(* SubSeq on them.  Every handler is one action; what the environment      *)
(* decides (does mkdir / savefig / write_image / display raise?) is an     *)
(* existentially quantified input of the action.                           *)
(***************************************************************************)
EXTENDS Integers, Sequences, FiniteSets, TLC

VARIABLES
    theme_STATE,    \* theme_minimal._STATE : [chapter, counter]
    helpers_STATE,  \* helpers._STATE       : [chapter, fig_counter]
    display,        \* theme_minimal.display/Markdown: "None" or "IPython"
    dirs,           \* directories that exist on disk
    last,           \* the call that has just completed (observation record)
    calls,          \* theme_minimal save calls started since the last
                    \* theme_minimal.cdi_notebook_init (history)
    allocated,      \* counter values of the paths _next_path returned since
                    \* then (history)
    returned,       \* paths the theme_minimal saves returned since then (history)
    helpers_returned, \* paths helpers.show_and_save_mpl returned since the
                    \* last helpers.cdi_notebook_init (history)
    thr             \* threads inside theme_minimal._next_path: where each
                    \* one stands and what it holds in its locals

vars ==
    <<theme_STATE, helpers_STATE, display, dirs, last, calls, allocated, returned,
      helpers_returned, thr>>

---------------------------------------------------------------------------
(* Bounds of the model *)

\* Spec: no save is started once a counter has reached this value.
MaxCounter == 2

\* SpecCall: the same, for the specification of single calls.
CallMaxCounter == 1

\* SpecThreads: the threads start this many save calls between them.
ThreadMaxCalls == 3

\* SpecLong: a long session of default saves runs the counter up to here.
LongMaxCounter == 1001

(* Program constants *)

\* str(chapter).zfill(2)
ChapterWidth == 2

\* f"{counter:03d}"
CounterWidth == 3

---------------------------------------------------------------------------
(* Python string helpers *)

DigitChar(d) ==
    CASE d = 0 -> "0" [] d = 1 -> "1" [] d = 2 -> "2" [] d = 3 -> "3"
      [] d = 4 -> "4" [] d = 5 -> "5" [] d = 6 -> "6" [] d = 7 -> "7"
      [] d = 8 -> "8" [] d = 9 -> "9"

Digits == {DigitChar(d) : d \in 0..9}

\* decimal digits of a natural number, as str(int) writes them
RECURSIVE Dec(_)
Dec(n) == IF n < 10 THEN DigitChar(n) ELSE Dec(n \div 10) \o DigitChar(n % 10)

\* str(): the inputs are tagged Python values, a str or an int
PyStr(v) ==
    IF v.tag = "str" THEN v.val
    ELSE IF v.val < 0 THEN "-" \o Dec(0 - v.val) ELSE Dec(v.val)

RECURSIVE Zeros(_)
Zeros(k) == IF k <= 0 THEN "" ELSE "0" \o Zeros(k - 1)

\* str.zfill(width): pads on the left with "0" up to width, after a leading
\* sign if there is one; a string already that long is returned unchanged
zfill(s, width) ==
    IF Len(s) >= width THEN s
    ELSE IF Len(s) > 0 /\ Head(s) \in {"+", "-"}
         THEN Head(s) \o Zeros(width - Len(s)) \o Tail(s)
         ELSE Zeros(width - Len(s)) \o s

\* mutant: the counter formatted without its width, f"{counter}"
Fmt03d_Unpadded(n) == Dec(n)

\* mutant: the counter formatted with width 2, f"{counter:02d}"
Fmt03d_Width2(n) == IF n < 10 THEN "0" \o Dec(n) ELSE Dec(n)

\* format(n, "03d"): zero-padded to at least CounterWidth characters, the sign
\* of a negative number included; longer when n needs more
Fmt03d(n) ==
    IF n < 0
    THEN "-" \o Zeros(CounterWidth - 1 - Len(Dec(0 - n))) \o Dec(0 - n)
    ELSE Zeros(CounterWidth - Len(Dec(n))) \o Dec(n)

\* str(Path(folder) / name) for a folder written in normalised form
PathJoin(folder, name) == IF folder = "." THEN name ELSE folder \o "/" \o name

---------------------------------------------------------------------------
(* Inputs *)

PStr(s) == [tag |-> "str", val |-> s]
PInt(n) == [tag |-> "int", val |-> n]

\* values passed as chapter: one- and two-character strings, ints, and a
\* value whose string form is longer than two characters
ChapterInputs == {PStr("2"), PStr("07"), PInt(5), PInt(123)}

\* folder= arguments, in normalised form; "figures" is the default
Folders == {"figures", "out/figs"}

\* the directories of the model and their parents ("." is the working directory)
AllDirs == {"figures", "out", "out/figs"}

Parent(d) == IF d = "out/figs" THEN "out" ELSE "."

Ancestors(d) == IF Parent(d) = "." THEN {d} ELSE {d, Parent(d)}

\* the figure argument: None (the current figure is used) or a figure
Figs == {"None", "fig"}

---------------------------------------------------------------------------
(* Exceptions and call results *)

NoExc == [type |-> "None", msg |-> "", cause |-> <<>>]

Exc(type, msg) == [type |-> type, msg |-> msg, cause |-> <<>>]

\* errors fig.write_image can raise (subclasses of Exception)
ExportErrors ==
    {Exc("ValueError", "kaleido is not installed"), Exc("OSError", "disk full")}

\* what a call did, in order: <<kind, object, path>> triples
NoEvents == <<>>

Ev(kind, obj, path) == <<kind, obj, path>>

\* what the environment makes fail during a call (the first failure ends the
\* call, so one fault per call covers every outcome)
Faults == {"none", "mkdir", "show", "persist", "display"}

Returned(st, ds, out, evs) ==
    [state |-> st, dirs |-> ds, outcome |-> "returned", ret |-> <<out>>,
     exc |-> NoExc, events |-> evs]

Raised(st, ds, e, evs) ==
    [state |-> st, dirs |-> ds, outcome |-> "raised", ret |-> <<>>,
     exc |-> e, events |-> evs]

---------------------------------------------------------------------------
(* Path(...).mkdir(parents=..., exist_ok=True) *)

Mkdir(path, parents, ds, fault) ==
    IF fault = "mkdir"
    THEN [ok |-> FALSE, dirs |-> ds, exc |-> Exc("PermissionError", path)]
    ELSE IF path \in ds
    THEN [ok |-> TRUE, dirs |-> ds, exc |-> NoExc]
    ELSE IF ~parents /\ Parent(path) \notin (ds \cup {"."})
    THEN [ok |-> FALSE, dirs |-> ds, exc |-> Exc("FileNotFoundError", path)]
    ELSE [ok |-> TRUE,
          dirs |-> ds \cup (IF parents THEN Ancestors(path) ELSE {path}),
          exc |-> NoExc]

\* writing a file into folder (fig.savefig, fig.write_image, p.save): needs
\* the directory to exist, and can fail for reasons of its own
CanWrite(folder, ds, fault) == fault # "persist" /\ folder \in ds

---------------------------------------------------------------------------
(* theme_minimal *)

\* mutant: the chapter stored without .zfill(2)
SetChapter_NoPad(st, chapter) == [st EXCEPT !.chapter = PyStr(chapter)]

\* _STATE["chapter"] = str(chapter).zfill(2)
SetChapter(st, chapter) ==
    [st EXCEPT !.chapter = zfill(PyStr(chapter), ChapterWidth)]

\* mutant: the initialization without its counter reset
ResetCounter_Skip(st) == st

\* _STATE["counter"] = 0
ResetCounter(st) == [st EXCEPT !.counter = 0]

\* mutant: _next_path without its increment
Increment_Skip(st) == st

\* mutant: "-=" written for "+="
Increment_Minus(st) == [st EXCEPT !.counter = @ - 1]

\* _STATE["counter"] += 1
Increment(st) == [st EXCEPT !.counter = @ + 1]

\* mutant: the directory made first, _STATE written only when that succeeded
theme_cdi_notebook_init_MkdirFirst(st, ds, chapter, fault) ==
    LET m == Mkdir("figures", TRUE, ds, fault)
    IN  IF m.ok
        THEN [state |-> ResetCounter(SetChapter(st, chapter)), dirs |-> m.dirs,
              outcome |-> "returned", ret |-> <<>>, exc |-> NoExc,
              events |-> <<Ev("mkdir", "figures", "")>>]
        ELSE Raised(st, ds, m.exc, NoEvents)

\* cdi_notebook_init(*, chapter)
theme_cdi_notebook_init(st, ds, chapter, fault) ==
    LET st2 == ResetCounter(SetChapter(st, chapter))
        m   == Mkdir("figures", TRUE, ds, fault)
    IN  IF m.ok
        THEN [state |-> st2, dirs |-> m.dirs, outcome |-> "returned",
              ret |-> <<>>, exc |-> NoExc,
              events |-> <<Ev("mkdir", "figures", "")>>]
        ELSE Raised(st2, ds, m.exc, NoEvents)

\* _next_path(*, folder, ext)
next_path(st, ds, folder, ext, fault) ==
    LET st1  == Increment(st)
        m    == Mkdir(folder, TRUE, ds, fault)
        name == st1.chapter \o "_" \o Fmt03d(st1.counter) \o "." \o ext
    IN  IF m.ok
        THEN Returned(st1, m.dirs, PathJoin(folder, name),
                      <<Ev("mkdir", folder, "")>>)
        ELSE Raised(st1, ds, m.exc, NoEvents)

\* mutant: _embed without its "is None" test; calling None raises TypeError
embed_AlwaysDisplay(path, disp, fault) ==
    IF disp = "None"
    THEN [raised |-> TRUE, exc |-> Exc("TypeError", "'NoneType' object is not callable"),
          events |-> NoEvents]
    ELSE IF fault # "display"
    THEN [raised |-> FALSE, exc |-> NoExc,
          events |-> <<Ev("display", "![](" \o path \o ")", path)>>]
    ELSE [raised |-> TRUE, exc |-> Exc("DisplayError", path), events |-> NoEvents]

\* _embed(path): print(path) when display or Markdown is None, else
\* display(Markdown(...)), whose exception (if any) is not caught
embed(path, disp, fault) ==
    IF disp = "None"
    THEN [raised |-> FALSE, exc |-> NoExc, events |-> <<Ev("print", "", path)>>]
    ELSE IF fault # "display"
    THEN [raised |-> FALSE, exc |-> NoExc,
          events |-> <<Ev("display", "![](" \o path \o ")", path)>>]
    ELSE [raised |-> TRUE, exc |-> Exc("DisplayError", path), events |-> NoEvents]

\* mutant: _embed(out) whatever emit_markdown says
EmitStep_Always(emit_markdown, out, disp, fault) == embed(out, disp, fault)

\* "if emit_markdown: _embed(out)"
EmitStep(emit_markdown, out, disp, fault) ==
    IF emit_markdown THEN embed(out, disp, fault)
    ELSE [raised |-> FALSE, exc |-> NoExc, events |-> NoEvents]

\* mutant: plt.close(fig) whatever close says
CloseStep_Always(close, f) == <<Ev("close", f, "")>>

\* "if close: plt.close(fig)"
CloseStep(close, f) == IF close THEN <<Ev("close", f, "")>> ELSE NoEvents

\* show_and_save_mpl(fig, *, dpi, folder, emit_markdown, close)
show_and_save_mpl(st, ds, disp, fig, folder, emit_markdown, close, fault) ==
    LET f == IF fig = "None" THEN "gcf" ELSE fig
        a == next_path(st, ds, folder, "png", fault)
    IN  IF a.outcome = "raised" THEN a
        ELSE
        LET out == a.ret[1]
            ev1 == a.events \o <<Ev("savefig", f, out)>>
            e   == EmitStep(emit_markdown, out, disp, fault)
        IN  IF ~CanWrite(folder, a.dirs, fault)
            THEN Raised(a.state, a.dirs, Exc("OSError", out), a.events)
            ELSE IF e.raised
            THEN Raised(a.state, a.dirs, e.exc, ev1)
            ELSE Returned(a.state, a.dirs, out,
                          ev1 \o e.events \o CloseStep(close, f))

\* mutant: the RuntimeError raised without "Reason: {e}" and without "from e"
WrapExportError_NoReason(e) ==
    [type  |-> "RuntimeError",
     msg   |-> "Plotly PNG export failed. Install kaleido:\n"
                 \o "  pip install -U kaleido\n",
     cause |-> <<>>]

\* the RuntimeError raised "from e" when fig.write_image fails
WrapExportError(e) ==
    [type  |-> "RuntimeError",
     msg   |-> "Plotly PNG export failed. Install kaleido:\n"
                 \o "  pip install -U kaleido\n"
                 \o "Reason: " \o e.msg,
     cause |-> <<e>>]

\* mutant: fig.show() whatever show says
ShowStep_Always(show) == <<Ev("show", "fig", "")>>

\* "if show: fig.show()"
ShowStep(show) == IF show THEN <<Ev("show", "fig", "")>> ELSE NoEvents

\* show_and_save_plotly(fig, *, folder, scale, show, emit_markdown)
show_and_save_plotly(st, ds, disp, folder, show, emit_markdown, fault, exportErr) ==
    LET a == next_path(st, ds, folder, "png", fault)
    IN  IF a.outcome = "raised" THEN a
        ELSE
        LET out == a.ret[1]
            ev1 == a.events \o ShowStep(show)
            ev2 == ev1 \o <<Ev("write_image", "fig", out)>>
            e   == EmitStep(emit_markdown, out, disp, fault)
        IN  IF show /\ fault = "show"
            THEN Raised(a.state, a.dirs, Exc("ShowError", ""), a.events)
            ELSE IF ~CanWrite(folder, a.dirs, fault)
            THEN Raised(a.state, a.dirs, WrapExportError(exportErr), ev1)
            ELSE IF e.raised
            THEN Raised(a.state, a.dirs, e.exc, ev2)
            ELSE Returned(a.state, a.dirs, out, ev2 \o e.events)

\* mutant: the counter put back when p.save raises
show_and_save_plotnine_Rollback(st, ds, disp, folder, emit_markdown, fault) ==
    LET a == next_path(st, ds, folder, "png", fault)
    IN  IF a.outcome = "raised" THEN a
        ELSE
        LET out == a.ret[1]
            ev1 == a.events \o <<Ev("p.save", "p", out)>>
            e   == EmitStep(emit_markdown, out, disp, fault)
        IN  IF ~CanWrite(folder, a.dirs, fault)
            THEN Raised(st, a.dirs, Exc("OSError", out), a.events)
            ELSE IF e.raised
            THEN Raised(a.state, a.dirs, e.exc, ev1)
            ELSE Returned(a.state, a.dirs, out, ev1 \o e.events)

\* show_and_save_plotnine(p, *, folder, dpi, emit_markdown, **kwargs)
show_and_save_plotnine(st, ds, disp, folder, emit_markdown, fault) ==
    LET a == next_path(st, ds, folder, "png", fault)
    IN  IF a.outcome = "raised" THEN a
        ELSE
        LET out == a.ret[1]
            ev1 == a.events \o <<Ev("p.save", "p", out)>>
            e   == EmitStep(emit_markdown, out, disp, fault)
        IN  IF ~CanWrite(folder, a.dirs, fault)
            THEN Raised(a.state, a.dirs, Exc("OSError", out), a.events)
            ELSE IF e.raised
            THEN Raised(a.state, a.dirs, e.exc, ev1)
            ELSE Returned(a.state, a.dirs, out, ev1 \o e.events)

\* title=/subtitle= arguments of the styling helpers: None, empty, a text
Titles == {"None", "Sales"}

Subtitles == {"None", "", "by month"}

\* CDI_PALETTE["muted"]
PaletteMuted == "#6B7280"

\* mutant: a finishing step that takes a figure number from _next_path
cdi_mpl_finish_Allocates(st, ds, title, subtitle, legend) ==
    next_path(st, ds, "figures", "png", "none")

\* cdi_mpl_finish(fig, ax, *, title, subtitle, legend, legend_title, legend_ncol):
\* calls on fig and ax only; "if subtitle:" is false for None and for ""
cdi_mpl_finish(st, ds, title, subtitle, legend) ==
    Returned(st, ds, "(fig, ax)",
             <<Ev("suptitle", "fig", title),
               Ev("set_title", "ax", IF subtitle \in {"None", ""} THEN "" ELSE subtitle),
               Ev("grid", "ax", "y"),
               Ev("grid_off", "ax", "x")>>
             \o (IF legend THEN <<Ev("legend", "ax", "upper center")>> ELSE NoEvents)
             \o <<Ev("tight_layout", "fig", "")>>)

\* set_cdi_plotly_layout(fig, *, title, subtitle, ...): fig.update_layout only;
\* the tests are "is not None", so an empty subtitle is rendered
set_cdi_plotly_layout(st, ds, title, subtitle) ==
    Returned(st, ds, "fig",
             (IF title # "None" /\ subtitle # "None"
              THEN <<Ev("update_layout", "fig",
                        title \o "<br><span style='font-size:0.85em; color:"
                              \o PaletteMuted \o "'>" \o subtitle \o "</span>")>>
              ELSE IF title # "None"
              THEN <<Ev("update_layout", "fig", title)>>
              ELSE NoEvents)
             \o <<Ev("update_layout", "fig", "title_x, margin, legend")>>)

---------------------------------------------------------------------------
(* helpers *)

\* _STATE.chapter = str(chapter).zfill(2)
helpers_SetChapter(hst, chapter) ==
    [hst EXCEPT !.chapter = zfill(PyStr(chapter), ChapterWidth)]

\* cdi_notebook_init(chapter)
helpers_cdi_notebook_init(hst, ds, chapter, fault) ==
    LET h2 == [helpers_SetChapter(hst, chapter) EXCEPT !.fig_counter = 0]
        m  == Mkdir("figures", FALSE, ds, fault)
    IN  IF m.ok
        THEN [state |-> h2, dirs |-> m.dirs, outcome |-> "returned",
              ret |-> <<>>, exc |-> NoExc,
              events |-> <<Ev("mkdir", "figures", "")>>]
        ELSE Raised(h2, ds, m.exc, NoEvents)

\* show_and_save_mpl(fig, dpi): no directory is created here
helpers_show_and_save_mpl(hst, ds, fig, fault) ==
    LET f   == IF fig = "None" THEN "gcf" ELSE fig
        h1  == [hst EXCEPT !.fig_counter = @ + 1]
        out == PathJoin("figures",
                        h1.chapter \o "_" \o Fmt03d(h1.fig_counter) \o ".png")
    IN  IF ~CanWrite("figures", ds, fault)
        THEN Raised(h1, ds,
                    IF "figures" \in ds THEN Exc("OSError", out)
                    ELSE Exc("FileNotFoundError", out),
                    NoEvents)
        ELSE Returned(h1, ds, out, <<Ev("savefig", f, out), Ev("plt.show", "", "")>>)

---------------------------------------------------------------------------
(* State machine *)

NoChapter == [tag |-> "none", val |-> ""]

\* the arguments of a call; those an operation does not take keep a filler
Args(chapter, fig, folder, emit_markdown, close, show) ==
    [chapter |-> chapter, fig |-> fig, folder |-> folder,
     emit_markdown |-> emit_markdown, close |-> close, show |-> show]

\* the observation of a completed call: its arguments, what the environment
\* made fail, the module's counter and the folder's existence when it was
\* called, and the handler's result r
Obs(module, op, args, fault, r) ==
    [module |-> module, op |-> op, args |-> args, fault |-> fault,
     counterBefore |-> (IF module = "helpers" THEN helpers_STATE.fig_counter
                        ELSE theme_STATE.counter),
     dirExisted |-> (args.folder \in dirs),
     outcome |-> r.outcome, ret |-> r.ret, exc |-> r.exc, events |-> r.events]

\* the threads of the process; none is inside _next_path
Threads == {"t1", "t2"}

NoThreads ==
    [pc |-> [t \in Threads |-> "idle"], tmp |-> [t \in Threads |-> 0],
     out |-> [t \in Threads |-> ""], raced |-> FALSE]

\* module import: both _STATE objects get their defaults; display/Markdown
\* are None when "from IPython.display import ..." raised
Init ==
    /\ theme_STATE = [chapter |-> "01", counter |-> 0]
    /\ helpers_STATE = [chapter |-> "01", fig_counter |-> 0]
    /\ display \in {"None", "IPython"}
    /\ dirs \in {{}, {"figures"}}
    /\ last = [module |-> "", op |-> "import",
               args |-> Args(NoChapter, "None", "figures", FALSE, FALSE, FALSE),
               fault |-> "none", counterBefore |-> 0,
               dirExisted |-> ("figures" \in dirs),
               outcome |-> "returned", ret |-> <<>>, exc |-> NoExc,
               events |-> NoEvents]
    /\ calls = 0
    /\ allocated = <<>>
    /\ returned = <<>>
    /\ helpers_returned = <<>>
    /\ thr = NoThreads

\* a theme_minimal save has completed with result r
ThemeSaved(op, args, fault, r) ==
    /\ theme_STATE' = r.state
    /\ dirs' = r.dirs
    /\ last' = Obs("theme_minimal", op, args, fault, r)
    /\ calls' = calls + 1
    /\ allocated' = IF r.events # NoEvents
                    THEN Append(allocated, r.state.counter) ELSE allocated
    /\ returned' = IF r.outcome = "returned"
                   THEN Append(returned, r.ret[1]) ELSE returned
    /\ UNCHANGED <<helpers_STATE, display, helpers_returned, thr>>

CdiNotebookInit(chapter, fault) ==
    LET r == theme_cdi_notebook_init(theme_STATE, dirs, chapter, fault)
    IN  /\ theme_STATE' = r.state
        /\ dirs' = r.dirs
        /\ last' = Obs("theme_minimal", "cdi_notebook_init",
                       Args(chapter, "None", "figures", FALSE, FALSE, FALSE),
                       fault, r)
        /\ calls' = 0
        /\ allocated' = <<>>
        /\ returned' = <<>>
        /\ UNCHANGED <<helpers_STATE, display, helpers_returned, thr>>

ShowAndSaveMpl(fig, folder, emit_markdown, close, fault) ==
    ThemeSaved("show_and_save_mpl",
               Args(NoChapter, fig, folder, emit_markdown, close, FALSE), fault,
               show_and_save_mpl(theme_STATE, dirs, display, fig, folder,
                                 emit_markdown, close, fault))

ShowAndSavePlotly(folder, show, emit_markdown, fault, exportErr) ==
    ThemeSaved("show_and_save_plotly",
               Args(NoChapter, "fig", folder, emit_markdown, FALSE, show), fault,
               show_and_save_plotly(theme_STATE, dirs, display, folder, show,
                                    emit_markdown, fault, exportErr))

ShowAndSavePlotnine(folder, emit_markdown, fault) ==
    ThemeSaved("show_and_save_plotnine",
               Args(NoChapter, "p", folder, emit_markdown, FALSE, FALSE), fault,
               show_and_save_plotnine(theme_STATE, dirs, display, folder,
                                      emit_markdown, fault))

HelpersCdiNotebookInit(chapter, fault) ==
    LET r == helpers_cdi_notebook_init(helpers_STATE, dirs, chapter, fault)
    IN  /\ helpers_STATE' = r.state
        /\ dirs' = r.dirs
        /\ last' = Obs("helpers", "cdi_notebook_init",
                       Args(chapter, "None", "figures", FALSE, FALSE, FALSE),
                       fault, r)
        /\ helpers_returned' = <<>>
        /\ UNCHANGED <<theme_STATE, display, calls, allocated, returned, thr>>

HelpersShowAndSaveMpl(fig, fault) ==
    LET r == helpers_show_and_save_mpl(helpers_STATE, dirs, fig, fault)
    IN  /\ helpers_STATE' = r.state
        /\ dirs' = r.dirs
        /\ last' = Obs("helpers", "show_and_save_mpl",
                       Args(NoChapter, fig, "figures", FALSE, FALSE, FALSE),
                       fault, r)
        /\ helpers_returned' = IF r.outcome = "returned"
                               THEN Append(helpers_returned, r.ret[1])
                               ELSE helpers_returned
        /\ UNCHANGED <<theme_STATE, display, calls, allocated, returned, thr>>

\* a styling helper has completed with result r; it is no save call, and
\* the history records a counter value only if the helper took one
Styled(op, r) ==
    /\ theme_STATE' = r.state
    /\ dirs' = r.dirs
    /\ last' = Obs("theme_minimal", op,
                   Args(NoChapter, "fig", "figures", FALSE, FALSE, FALSE), "none", r)
    /\ calls' = calls
    /\ allocated' = IF r.state.counter # theme_STATE.counter
                    THEN Append(allocated, r.state.counter) ELSE allocated
    /\ UNCHANGED <<helpers_STATE, display, returned, helpers_returned, thr>>

CdiMplFinish(title, subtitle, legend) ==
    Styled("cdi_mpl_finish", cdi_mpl_finish(theme_STATE, dirs, title, subtitle, legend))

SetCdiPlotlyLayout(title, subtitle) ==
    Styled("set_cdi_plotly_layout",
           set_cdi_plotly_layout(theme_STATE, dirs, title, subtitle))

---------------------------------------------------------------------------
(* _next_path run by several threads with no lock.  The statement            *)
(* _STATE["counter"] += 1 is a read of the item, an addition and a write of  *)
(* the item; Path(folder).mkdir and the f-string's read of the counter       *)
(* follow.  Another thread may run between any two of these steps.           *)

\* mutant: the write half of the increment stores the value that was read
CounterStore_Same(st, tmp) == [st EXCEPT !.counter = tmp]

\* the write half of _STATE["counter"] += 1
CounterStore(st, tmp) == [st EXCEPT !.counter = tmp + 1]

\* name = f"{chapter}_{counter:03d}.{ext}"; str(Path(folder) / name)
BuildName(st, folder, ext) ==
    PathJoin(folder, st.chapter \o "_" \o Fmt03d(st.counter) \o "." \o ext)

\* threads that have read the counter for their increment and have not yet
\* read it for their file name
InWindow == {u \in Threads : thr.pc[u] \in {"store", "mkdir", "name"}}

\* a save is called on thread t and reads the counter
ThreadLoad(t) ==
    /\ thr.pc[t] = "idle"
    /\ calls < ThreadMaxCalls
    /\ thr' = [thr EXCEPT !.pc[t] = "store", !.tmp[t] = theme_STATE.counter]
    /\ calls' = calls + 1
    /\ UNCHANGED <<theme_STATE, helpers_STATE, display, dirs, last, allocated,
                   returned, helpers_returned>>

\* t writes the counter back, incremented
ThreadStore(t) ==
    /\ thr.pc[t] = "store"
    /\ theme_STATE' = CounterStore(theme_STATE, thr.tmp[t])
    /\ thr' = [thr EXCEPT !.pc[t] = "mkdir",
                          !.raced = thr.raced \/ InWindow \ {t} # {}]
    /\ UNCHANGED <<helpers_STATE, display, dirs, last, calls, allocated,
                   returned, helpers_returned>>

\* t runs Path("figures").mkdir(parents=True, exist_ok=True)
ThreadMkdir(t) ==
    /\ thr.pc[t] = "mkdir"
    /\ dirs' = Mkdir("figures", TRUE, dirs, "none").dirs
    /\ thr' = [thr EXCEPT !.pc[t] = "name"]
    /\ UNCHANGED <<theme_STATE, helpers_STATE, display, last, calls, allocated,
                   returned, helpers_returned>>

\* t reads chapter and counter and builds its path
ThreadName(t) ==
    /\ thr.pc[t] = "name"
    /\ thr' = [thr EXCEPT !.pc[t] = "save",
                          !.out[t] = BuildName(theme_STATE, "figures", "png")]
    /\ allocated' = Append(allocated, theme_STATE.counter)
    /\ UNCHANGED <<theme_STATE, helpers_STATE, display, dirs, last, calls,
                   returned, helpers_returned>>

\* t writes its file and the save returns the path
ThreadReturn(t) ==
    /\ thr.pc[t] = "save"
    /\ returned' = Append(returned, thr.out[t])
    /\ thr' = [thr EXCEPT !.pc[t] = "idle"]
    /\ UNCHANGED <<theme_STATE, helpers_STATE, display, dirs, last, calls,
                   allocated, helpers_returned>>

---------------------------------------------------------------------------
(* Specifications.  The callers differ, the handlers are the same.          *)

\* Sessions: both modules, every chapter input, each save with its default
\* arguments (fig=None, folder="figures", emit_markdown=True, close=True,
\* show=False), any step of a call failing.
Next ==
    \/ \E c \in ChapterInputs, fault \in {"none", "mkdir"} :
          CdiNotebookInit(c, fault)
    \/ /\ theme_STATE.counter < MaxCounter
       /\ \E fault \in {"none", "mkdir", "persist", "display"} :
             ShowAndSaveMpl("None", "figures", TRUE, TRUE, fault)
    \/ /\ theme_STATE.counter < MaxCounter
       /\ \E fault \in {"none", "mkdir", "persist", "display"} :
             \E e \in (IF fault = "persist" THEN ExportErrors ELSE {NoExc}) :
                ShowAndSavePlotly("figures", FALSE, TRUE, fault, e)
    \/ /\ theme_STATE.counter < MaxCounter
       /\ \E fault \in {"none", "mkdir", "persist", "display"} :
             ShowAndSavePlotnine("figures", TRUE, fault)
    \/ \E c \in ChapterInputs, fault \in {"none", "mkdir"} :
          HelpersCdiNotebookInit(c, fault)
    \/ /\ helpers_STATE.fig_counter < MaxCounter
       /\ \E fault \in {"none", "persist"} :
             HelpersShowAndSaveMpl("None", fault)

Spec == Init /\ [][Next]_vars

\* Single calls: every argument combination of every save routine and of the
\* two styling helpers, any step of a save failing, from any directory
\* layout; one chapter.
NextCall ==
    \/ \E fault \in {"none", "mkdir"} : CdiNotebookInit(PStr("2"), fault)
    \/ /\ theme_STATE.counter < CallMaxCounter
       /\ \E fig \in Figs, folder \in Folders, emit \in BOOLEAN, close \in BOOLEAN,
             fault \in {"none", "mkdir", "persist", "display"} :
             ShowAndSaveMpl(fig, folder, emit, close, fault)
    \/ /\ theme_STATE.counter < CallMaxCounter
       /\ \E folder \in Folders, show \in BOOLEAN, emit \in BOOLEAN,
             fault \in Faults :
             \E e \in (IF fault = "persist" THEN ExportErrors ELSE {NoExc}) :
                ShowAndSavePlotly(folder, show, emit, fault, e)
    \/ /\ theme_STATE.counter < CallMaxCounter
       /\ \E folder \in Folders, emit \in BOOLEAN,
             fault \in {"none", "mkdir", "persist", "display"} :
             ShowAndSavePlotnine(folder, emit, fault)
    \/ \E subtitle \in Subtitles, legend \in BOOLEAN :
          CdiMplFinish("Sales", subtitle, legend)
    \/ \E title \in Titles, subtitle \in Subtitles : SetCdiPlotlyLayout(title, subtitle)
    \/ \E fault \in {"none", "mkdir"} : HelpersCdiNotebookInit(PStr("2"), fault)
    \/ /\ helpers_STATE.fig_counter < CallMaxCounter
       /\ \E fig \in Figs, fault \in {"none", "persist"} :
             HelpersShowAndSaveMpl(fig, fault)

SpecCall == Init /\ [][NextCall]_vars

\* A long session: one chapter, default saves of the three backends in any
\* mix, nothing failing.
NextLong ==
    \/ CdiNotebookInit(PStr("2"), "none")
    \/ /\ theme_STATE.counter < LongMaxCounter
       /\ ShowAndSaveMpl("fig", "figures", TRUE, TRUE, "none")
    \/ /\ theme_STATE.counter < LongMaxCounter
       /\ ShowAndSavePlotly("figures", FALSE, TRUE, "none", NoExc)
    \/ /\ theme_STATE.counter < LongMaxCounter
       /\ ShowAndSavePlotnine("figures", TRUE, "none")

SpecLong == Init /\ [][NextLong]_vars

\* Two threads of one process calling saves with no lock, their steps
\* interleaved in every way.
NextThreads ==
    \E t \in Threads :
        \/ ThreadLoad(t)
        \/ ThreadStore(t)
        \/ ThreadMkdir(t)
        \/ ThreadName(t)
        \/ ThreadReturn(t)

SpecThreads == Init /\ [][NextThreads]_vars

---------------------------------------------------------------------------
(* Vocabulary of the properties *)

SaveOps == {"show_and_save_mpl", "show_and_save_plotly", "show_and_save_plotnine"}

\* the call just completed is a theme_minimal save / any save of the repository
ThemeSave == last.module = "theme_minimal" /\ last.op \in SaveOps

AnySave == ThemeSave \/ (last.module = "helpers" /\ last.op = "show_and_save_mpl")

ThemeInit == last.module = "theme_minimal" /\ last.op = "cdi_notebook_init"

HelpersInit == last.module = "helpers" /\ last.op = "cdi_notebook_init"

\* the chapter the module of the call just completed has stored
StoredChapter ==
    IF last.module = "helpers" THEN helpers_STATE.chapter ELSE theme_STATE.chapter

IsDigits(s) == \A i \in 1..Len(s) : SubSeq(s, i, i) \in Digits

IsTwoDigits(s) == Len(s) = 2 /\ IsDigits(s)

\* i written with exactly three decimal digits: there is such a string only
\* for 0 <= i <= 999
HasThreeDigitForm(i) == i >= 0 /\ i <= 999

ThreeDigits(i) ==
    DigitChar(i \div 100) \o DigitChar((i \div 10) % 10) \o DigitChar(i % 10)

\* '<folder>/<cc>_<field>.png'
FigurePath(folder, cc, field) == folder \o "/" \o cc \o "_" \o field \o ".png"

\* the events of the call just completed, by kind
EventsOf(kinds) == {i \in 1..Len(last.events) : last.events[i][1] \in kinds}

\* sub occurs in the string s
Contains(s, sub) ==
    \E i \in 1..(Len(s) - Len(sub) + 1) : SubSeq(s, i, i + Len(sub) - 1) = sub

\* the figure a show_and_save_mpl call works on
FigureOf(fig) == IF fig = "None" THEN "gcf" ELSE fig

\* the path the call just completed is expected to return: the next number
\* after the counter it found
ExpectedPath ==
    FigurePath(last.args.folder, StoredChapter, ThreeDigits(last.counterBefore + 1))

PersistKinds == {"savefig", "write_image", "p.save"}

EmbedKinds == {"print", "display"}

---------------------------------------------------------------------------
---------------------------------------------------------------------------
(* C2, as stated: in every reachable state the stored chapter (of either     *)
(* module) is a string of exactly two digits, whatever value was passed to   *)
(* cdi_notebook_init.  Fails for chapter=123, stored as "123".               *)
C2_AsStated ==
    /\ IsTwoDigits(theme_STATE.chapter)
    /\ IsTwoDigits(helpers_STATE.chapter)

\* a string of at most two digits, zero-padded to two
TwoDigitForm(s) == IF Len(s) = 0 THEN "00" ELSE IF Len(s) = 1 THEN "0" \o s ELSE s

(* C2, amended: after cdi_notebook_init(chapter=v), if str(v) is at most two *)
(* decimal digits the stored chapter is its 2-digit zero-padded form         *)
(* (exactly two digits); if str(v) is longer than two characters the stored  *)
(* chapter is str(v) itself, unpadded and not cut.  Before any               *)
(* initialization both modules hold "01".                                    *)
C2_Normalised ==
    /\ (ThemeInit \/ HelpersInit) =>
          LET s == PyStr(last.args.chapter)
          IN  /\ (Len(s) <= 2 /\ IsDigits(s)) =>
                    (StoredChapter = TwoDigitForm(s) /\ IsTwoDigits(StoredChapter))
              /\ Len(s) > 2 => StoredChapter = s
    /\ last.op = "import" =>
          (theme_STATE.chapter = "01" /\ helpers_STATE.chapter = "01")

\* C2 witness: cdi_notebook_init(chapter=5), an int, has stored "05"
C2_Witness ==
    ThemeInit /\ last.args.chapter = PInt(5) /\ theme_STATE.chapter = "05"

---------------------------------------------------------------------------
(* C3: cdi_notebook_init sets the counter to 0 whatever it was before (also  *)
(* when its mkdir raises), and the first save call after it, if _next_path   *)
(* returns a path, gets counter field 001.                                   *)
C3_InitResets ==
    [][ /\ (last'.module = "theme_minimal" /\ last'.op = "cdi_notebook_init") =>
              (theme_STATE'.counter = 0 /\ calls' = 0)
        /\ (calls = 0 /\ calls' = 1 /\ last'.events # NoEvents) =>
              /\ allocated' = <<1>>
              /\ last'.outcome = "returned" =>
                    last'.ret = <<FigurePath(last'.args.folder,
                                             theme_STATE'.chapter, "001")>>
      ]_vars

\* C3 witness: an initialization that found the counter at MaxCounter has
\* left it at 0
C3_Witness ==
    ThemeInit /\ last.counterBefore = MaxCounter /\ theme_STATE.counter = 0

---------------------------------------------------------------------------
(* C4: between two initializations no two path allocations carry the same    *)
(* counter value and no two save calls return the same path.                 *)
C4_Unique ==
    /\ \A i, j \in 1..Len(allocated) : i # j => allocated[i] # allocated[j]
    /\ \A i, j \in 1..Len(returned) : i # j => returned[i] # returned[j]

\* C4 witness: a session in which MaxCounter paths were allocated and at
\* least two of them returned
C4_Witness == Len(allocated) = MaxCounter /\ Len(returned) >= 2

---------------------------------------------------------------------------
(* C5: when fig.write_image fails inside show_and_save_plotly, the call      *)
(* raises one RuntimeError whose message names kaleido and contains the      *)
(* text of the underlying error, that error is its __cause__, no path is     *)
(* returned and _embed is not called.                                        *)
C5_ExportFailure ==
    (ThemeSave /\ last.op = "show_and_save_plotly" /\ last.fault = "persist") =>
        /\ last.outcome = "raised"
        /\ last.ret = <<>>
        /\ last.exc.type = "RuntimeError"
        /\ Contains(last.exc.msg, "kaleido")
        /\ Len(last.exc.cause) = 1
        /\ last.exc.cause[1] \in ExportErrors
        /\ Contains(last.exc.msg, last.exc.cause[1].msg)
        /\ EventsOf(EmbedKinds) = {}
        /\ EventsOf({"write_image"}) = {}

\* C5 witness: an export failed with "disk full" after fig.show(), with
\* IPython present and emit_markdown=True
C5_Witness ==
    /\ ThemeSave /\ last.op = "show_and_save_plotly" /\ last.fault = "persist"
    /\ last.args.show /\ last.args.emit_markdown /\ display = "IPython"
    /\ last.exc.cause = <<Exc("OSError", "disk full")>>
    /\ EventsOf({"show"}) # {}

---------------------------------------------------------------------------
(* C6, as stated: _embed never raises; a failure of the inline display is    *)
(* swallowed and replaced by plain-text output of the path, so a save whose  *)
(* persistence succeeded returns its path even when the display fails.       *)
(* The code has no handler around display(Markdown(...)).                    *)
C6_AsStated ==
    (ThemeSave /\ last.args.emit_markdown /\ last.fault = "display") =>
        /\ last.outcome = "returned"
        /\ \E i \in EventsOf({"print"}) : last.events[i][3] = ExpectedPath

---------------------------------------------------------------------------
(* C7: with display/Markdown None (IPython not importable), each of the      *)
(* three saves whose persistence step succeeded returns the allocated path   *)
(* and does not raise, with emit_markdown true (the path is printed) or      *)
(* false (nothing is reported).                                              *)
C7_NoDisplay ==
    (display = "None" /\ ThemeSave /\ EventsOf(PersistKinds) # {}) =>
        /\ last.outcome = "returned"
        /\ last.ret = <<ExpectedPath>>
        /\ \A i \in EventsOf(PersistKinds) : last.events[i][3] = ExpectedPath
        /\ last.args.emit_markdown =>
              \E i \in EventsOf(EmbedKinds) :
                  last.events[i] = Ev("print", "", ExpectedPath)
        /\ ~last.args.emit_markdown => EventsOf(EmbedKinds) = {}

\* C7 witness: show_and_save_plotnine(emit_markdown=True) returned into a
\* folder it had to create, with no IPython
C7_Witness ==
    /\ display = "None" /\ ThemeSave /\ last.op = "show_and_save_plotnine"
    /\ last.args.emit_markdown /\ last.args.folder = "out/figs"
    /\ last.outcome = "returned"

---------------------------------------------------------------------------
(* C8, as stated: a save called when its target directory does not exist     *)
(* creates it, with any missing parents, before the persistence step, and    *)
(* succeeds with the expected path; for every save routine of the            *)
(* repository, initialized or not.  helpers.show_and_save_mpl creates no     *)
(* directory.                                                                *)
C8_AsStated ==
    (AnySave /\ ~last.dirExisted /\ last.fault = "none") =>
        /\ last.outcome = "returned"
        /\ last.ret = <<ExpectedPath>>
        /\ Ancestors(last.args.folder) \subseteq dirs
        /\ \E m \in EventsOf({"mkdir"}) : \A w \in EventsOf(PersistKinds) : m < w

---------------------------------------------------------------------------
(* C9: in show_and_save_mpl the figure is closed only with close=True and    *)
(* only after fig.savefig has written it; with close=True it has been closed *)
(* when the call returns the path, as the last thing the call does; with     *)
(* close=False the call never closes it.                                     *)
C9_CloseAfterSave ==
    (ThemeSave /\ last.op = "show_and_save_mpl") =>
        LET f      == FigureOf(last.args.fig)
            closes == EventsOf({"close"})
            saves  == EventsOf({"savefig"})
        IN  /\ \A c \in closes :
                  /\ last.args.close
                  /\ last.events[c] = Ev("close", f, "")
                  /\ \E w \in saves : w < c /\ last.events[w][2] = f
            /\ (last.args.close /\ last.outcome = "returned") =>
                  closes = {Len(last.events)}
            /\ ~last.args.close => closes = {}

\* C9 witness: show_and_save_mpl() on the current figure, close=True, has
\* returned after saving, embedding and closing
C9_Witness ==
    /\ ThemeSave /\ last.op = "show_and_save_mpl" /\ last.outcome = "returned"
    /\ last.args.fig = "None" /\ last.args.close /\ last.args.emit_markdown
    /\ Len(last.events) = 4
    /\ last.events[4] = Ev("close", "gcf", "")

---------------------------------------------------------------------------
(* C10: a step that is not cdi_notebook_init never lowers the counter of     *)
(* either module; the only step that lowers it is the module's own           *)
(* cdi_notebook_init, which sets it to 0.                                    *)
C10_Monotonic ==
    [][ /\ \/ theme_STATE'.counter >= theme_STATE.counter
           \/ /\ last'.module = "theme_minimal" /\ last'.op = "cdi_notebook_init"
              /\ theme_STATE'.counter = 0
        /\ \/ helpers_STATE'.fig_counter >= helpers_STATE.fig_counter
           \/ /\ last'.module = "helpers" /\ last'.op = "cdi_notebook_init"
              /\ helpers_STATE'.fig_counter = 0
      ]_vars

\* C10 witness: the counter has climbed to MaxCounter through saves that
\* returned and saves that raised
C10_Witness ==
    /\ ThemeSave /\ theme_STATE.counter = MaxCounter
    /\ Len(returned) < MaxCounter /\ Len(returned) > 0

---------------------------------------------------------------------------
(* C11: only a module's own cdi_notebook_init changes its stored chapter:    *)
(* every save leaves it as it was; cdi_mpl_finish and set_cdi_plotly_layout  *)
(* leave chapter and counter unchanged, allocate no path and create nothing  *)
(* on disk.                                                                  *)
StylingOps == {"cdi_mpl_finish", "set_cdi_plotly_layout"}

C11_ChapterFrame ==
    [][ /\ theme_STATE'.chapter # theme_STATE.chapter =>
              (last'.module = "theme_minimal" /\ last'.op = "cdi_notebook_init")
        /\ helpers_STATE'.chapter # helpers_STATE.chapter =>
              (last'.module = "helpers" /\ last'.op = "cdi_notebook_init")
        /\ last'.op \in StylingOps =>
              /\ theme_STATE' = theme_STATE
              /\ helpers_STATE' = helpers_STATE
              /\ calls' = calls /\ allocated' = allocated /\ returned' = returned
              /\ dirs' = dirs
              /\ \A i \in 1..Len(last'.events) :
                    last'.events[i][1] \notin (PersistKinds \cup {"mkdir"})
      ]_vars

\* C11 witness: cdi_mpl_finish with a legend has completed in a session of
\* chapter "02" whose counter stands at 1
C11_Witness ==
    /\ last.op = "cdi_mpl_finish" /\ EventsOf({"legend"}) # {}
    /\ theme_STATE = [chapter |-> "02", counter |-> 1]
    /\ allocated = <<1>>

---------------------------------------------------------------------------
(* C12, as stated: all the save routines of the repository number their     *)
(* files from one shared state, so once both modules have been initialised  *)
(* to the same chapter, the paths returned by theme_minimal's saves and by  *)
(* helpers.show_and_save_mpl, taken together, never contain the same path   *)
(* twice.                                                                    *)
AllReturned == returned \o helpers_returned

C12_AsStated ==
    (theme_STATE.chapter = "02" /\ helpers_STATE.chapter = "02") =>
        \A i, j \in 1..Len(AllReturned) :
            i # j => AllReturned[i] # AllReturned[j]

---------------------------------------------------------------------------
(* C13, as stated: every path a save returns is                              *)
(* '<folder>/<chapter>_<counter>.<ext>' whose counter field has exactly 3    *)
(* digits and denotes the counter, for every counter value that repeated     *)
(* allocations of one session reach.  Checked under SpecLong (chapter "02"   *)
(* is the session opened by cdi_notebook_init(chapter="2")).                 *)
DigitVal(c) == CHOOSE d \in 0..9 : DigitChar(d) = c

RECURSIVE DigitsValue(_)
DigitsValue(s) ==
    IF Len(s) = 0 THEN 0
    ELSE 10 * DigitsValue(SubSeq(s, 1, Len(s) - 1)) + DigitVal(SubSeq(s, Len(s), Len(s)))

RECURSIVE NumDigits(_)
NumDigits(n) == IF n < 10 THEN 1 ELSE 1 + NumDigits(n \div 10)

\* p = prefix \o field \o suffix: the field, or <<>> when p has not that shape
FieldBetween(p, prefix, suffix) ==
    IF /\ Len(p) >= Len(prefix) + Len(suffix)
       /\ SubSeq(p, 1, Len(prefix)) = prefix
       /\ SubSeq(p, Len(p) - Len(suffix) + 1, Len(p)) = suffix
    THEN <<SubSeq(p, Len(prefix) + 1, Len(p) - Len(suffix))>>
    ELSE <<>>

\* the counter field of the path the theme_minimal save just returned
CounterField ==
    FieldBetween(last.ret[1], last.args.folder \o "/" \o theme_STATE.chapter \o "_",
                 ".png")

C13_AsStated ==
    (theme_STATE.chapter = "02" /\ ThemeSave /\ last.outcome = "returned") =>
        /\ CounterField # <<>>
        /\ Len(CounterField[1]) = 3
        /\ IsDigits(CounterField[1])
        /\ DigitsValue(CounterField[1]) = theme_STATE.counter

(* C13, amended: the counter field is the decimal counter zero-padded to at  *)
(* least 3 digits: exactly 3 digits while the counter is at most 999, and    *)
(* as many digits as the number has from 1000 on.                            *)
C13_Field ==
    (theme_STATE.chapter = "02" /\ ThemeSave /\ last.outcome = "returned") =>
        /\ CounterField # <<>>
        /\ IsDigits(CounterField[1])
        /\ DigitsValue(CounterField[1]) = theme_STATE.counter
        /\ Len(CounterField[1]) = IF theme_STATE.counter <= 999 THEN 3
                                  ELSE NumDigits(theme_STATE.counter)

\* C13 witness: the 1000th allocation of a session, made by show_and_save_plotly
C13_Witness ==
    /\ ThemeSave /\ last.op = "show_and_save_plotly"
    /\ last.counterBefore = 999
    /\ last.ret = <<"figures/02_1000.png">>

---------------------------------------------------------------------------
(* C14: in each save of theme_minimal, _embed is invoked at most once, only  *)
(* when emit_markdown is true, only after the figure has been persisted, and *)
(* with exactly the path the call returns; with emit_markdown false it is    *)
(* never invoked.  (_embed has run when it printed or displayed, or when its *)
(* display call raised.)                                                     *)
EmbedInvoked == EventsOf(EmbedKinds) # {} \/ last.exc.type = "DisplayError"

C14_EmbedOnceAfterSave ==
    ThemeSave =>
        /\ Cardinality(EventsOf(EmbedKinds)) <= 1
        /\ ~(EventsOf(EmbedKinds) # {} /\ last.exc.type = "DisplayError")
        /\ ~last.args.emit_markdown => ~EmbedInvoked
        /\ EmbedInvoked =>
              /\ last.args.emit_markdown
              /\ \E j \in EventsOf(PersistKinds) : last.events[j][3] = ExpectedPath
        /\ \A i \in EventsOf(EmbedKinds) :
              /\ \A j \in EventsOf(PersistKinds) : j < i
              /\ last.events[i][3] = ExpectedPath
              /\ last.outcome = "returned" /\ last.ret = <<last.events[i][3]>>
        /\ last.exc.type = "DisplayError" => last.exc.msg = ExpectedPath

\* C14 witness: show_and_save_mpl(emit_markdown=True) under IPython returned
\* after savefig and then one display of the returned path
C14_Witness ==
    /\ ThemeSave /\ last.op = "show_and_save_mpl" /\ last.args.emit_markdown
    /\ last.outcome = "returned"
    /\ \E i \in EventsOf({"display"}) :
          /\ last.events[i - 1][1] = "savefig"
          /\ last.events[i][3] = last.ret[1]

---------------------------------------------------------------------------
(* C15: in show_and_save_plotly with show=True, fig.show() happens after the *)
(* path has been allocated and before fig.write_image; with show=False it    *)
(* is never triggered.                                                       *)
C15_ShowBeforeExport ==
    (ThemeSave /\ last.op = "show_and_save_plotly") =>
        /\ ~last.args.show => EventsOf({"show"}) = {}
        /\ Cardinality(EventsOf({"show"})) <= 1
        /\ \A i \in EventsOf({"show"}) :
              /\ \E j \in EventsOf({"mkdir"}) : j < i
              /\ theme_STATE.counter = last.counterBefore + 1
              /\ \A k \in EventsOf({"write_image"}) : i < k
        /\ (last.args.show /\ EventsOf({"write_image"}) # {}) =>
              EventsOf({"show"}) # {}

\* C15 witness: show_and_save_plotly(show=True) returned: the folder made, the
\* figure shown, then the image written
C15_Witness ==
    /\ ThemeSave /\ last.op = "show_and_save_plotly" /\ last.args.show
    /\ last.outcome = "returned"
    /\ Len(last.events) >= 3
    /\ last.events[1][1] = "mkdir"
    /\ last.events[2][1] = "show"
    /\ last.events[3] = Ev("write_image", "fig", last.ret[1])

---------------------------------------------------------------------------
(* C16: with two threads calling saves with no lock, the increment of the    *)
(* counter and the later read of the counter for the file name are separate  *)
(* steps, so there is an interleaving in which two calls return the same     *)
(* path or an increment is lost (the witness), and such an outcome comes     *)
(* from that interleaving only: as long as no thread has written the counter *)
(* while another stood between its own read for the increment and its read   *)
(* for the name, every started call has counted once and all allocated and   *)
(* returned paths differ.                                                    *)
C16_RaceWindow ==
    ~thr.raced =>
        /\ theme_STATE.counter =
              calls - Cardinality({t \in Threads : thr.pc[t] = "store"})
        /\ \A i, j \in 1..Len(allocated) : i # j => allocated[i] # allocated[j]
        /\ \A i, j \in 1..Len(returned) : i # j => returned[i] # returned[j]
        /\ \A t \in Threads : thr.pc[t] = "save" =>
              thr.out[t] = FigurePath("figures", theme_STATE.chapter,
                                      ThreeDigits(thr.tmp[t] + 1))

\* C16 witness: two calls have returned the same path although neither
\* increment was lost
C16_Witness ==
    /\ thr.raced
    /\ calls = 2 /\ theme_STATE.counter = 2
    /\ returned = <<"figures/01_002.png", "figures/01_002.png">>

---------------------------------------------------------------------------
(* C17: each theme_minimal save increments the counter before it persists    *)
(* the figure and never puts it back: a save whose persistence raises has    *)
(* still consumed its counter value (the counter equals the number of save   *)
(* calls started since the initialization, failed or not) and has returned   *)
(* no path, and when the next call is a save that returns, its number is     *)
(* one higher than the failed one's: the sequence of files has a gap.        *)
C17_FailedSaveConsumes ==
    [][ /\ calls' = calls + 1 =>
              /\ last'.module = "theme_minimal" /\ last'.op \in SaveOps
              /\ theme_STATE'.counter = theme_STATE.counter + 1
              /\ theme_STATE'.counter = calls'
              /\ last'.fault = "persist" =>
                    /\ last'.outcome = "raised"
                    /\ \A i \in 1..Len(last'.events) :
                          last'.events[i][1] \notin PersistKinds
                    /\ allocated' = Append(allocated, theme_STATE.counter + 1)
                    /\ returned' = returned
        /\ (ThemeSave /\ last.fault = "persist" /\ calls' = calls + 1
              /\ last'.outcome = "returned") =>
              /\ allocated[Len(allocated)] = theme_STATE.counter
              /\ last'.ret = <<FigurePath(last'.args.folder, theme_STATE.chapter,
                                          ThreeDigits(theme_STATE.counter + 1))>>
              /\ \A i \in 1..Len(returned') :
                    returned'[i] # FigurePath(last.args.folder, theme_STATE.chapter,
                                              ThreeDigits(theme_STATE.counter))
      ]_vars

\* C17 witness: without IPython (so _embed cannot raise), the first save of
\* the session allocated 001 and returned nothing, the second returned 002
C17_Witness ==
    /\ ThemeSave /\ last.outcome = "returned" /\ display = "None"
    /\ calls = 2
    /\ allocated = <<1, 2>>
    /\ returned = <<"figures/01_002.png">>

---------------------------------------------------------------------------
(* C18: cdi_notebook_init (of either module) writes the chapter and resets   *)
(* the counter before it creates the directory, and _next_path increments    *)
(* the counter before it creates the folder: when the directory creation     *)
(* raises, the error propagates and the session state has already changed,   *)
(* while nothing has been saved and no path is returned.                     *)
C18_StateChangedOnMkdirError ==
    /\ ((ThemeInit \/ HelpersInit) /\ last.fault = "mkdir") =>
          /\ last.outcome = "raised" /\ last.exc.type = "PermissionError"
          /\ last.events = NoEvents
          /\ StoredChapter = (IF Len(PyStr(last.args.chapter)) <= 2
                              THEN TwoDigitForm(PyStr(last.args.chapter))
                              ELSE PyStr(last.args.chapter))
          /\ ThemeInit => theme_STATE.counter = 0
          /\ HelpersInit => helpers_STATE.fig_counter = 0
    /\ (ThemeSave /\ last.fault = "mkdir") =>
          /\ last.outcome = "raised" /\ last.exc.type = "PermissionError"
          /\ last.events = NoEvents /\ last.ret = <<>>
          /\ theme_STATE.counter = last.counterBefore + 1

\* C18 witness: cdi_notebook_init(chapter=123) raised from mkdir in a session
\* that had counted to MaxCounter; chapter and counter are the new ones
C18_Witness ==
    /\ ThemeInit /\ last.fault = "mkdir" /\ last.outcome = "raised"
    /\ last.args.chapter = PInt(123)
    /\ last.counterBefore = MaxCounter
    /\ theme_STATE = [chapter |-> "123", counter |-> 0]

====
